---- MODULE Spec2Model ----
(***************************************************************************)
(* Model of src/airfoil_data/polargenerator.py: the batch runner that      *)
(* calls XFOIL once per Reynolds number and then tidies the working        *)
(* directory.                                                              *)
(*                                                                         *)
(* A file name is a sequence of tokens whose concatenation is the string:  *)
(* <<"Polar_", "p1", ".txt">> is "Polar_p1.txt".  The first token holds    *)
(* the longest of the prefixes the script tests for ("naca",               *)
(* "Coordinates_", "Polar_") when the string starts with one, so           *)
(* str.startswith is a test of the first token and string concatenation    *)
(* with an extension is Append.                                            *)
(* The working directory is a function from the names of the files that    *)
(* exist to their content.  The content of a file is Old for a file that   *)
(* was there before the run and New for one a solver invocation wrote.     *)
(***************************************************************************)
EXTENDS Integers, Sequences, FiniteSets, TLC

VARIABLES
    argv,        \* sys.argv[1], or NoArg when the positional argument is missing
    fs0,         \* the working directory when the process started
    fs,          \* the working directory
    pc,          \* position in main(): "parse", "loop", "cleanup", "exit0", "error"
    err,         \* the uncaught exception, "none" while there is none
    airfoil,     \* main's local `airfoil`
    i,           \* main's counter `i`
    calls,       \* the solver calls issued so far, in order
    checks,      \* the os.path.exists tests of line 54 made so far, in order
    written,     \* names of the files the solver invocations wrote
    cleanupRuns, \* how many times cleanup() was entered
    fsBefore,    \* the working directory when cleanup() was last entered
    fsFirst,     \* the working directory when the first cleanup() returned
    removed,     \* names os.remove deleted during the last cleanup()
    renames      \* bag of the <<old, new>> pairs of os.rename in the last cleanup()

vars == <<argv, fs0, fs, pc, err, airfoil, i, calls, checks, written,
          cleanupRuns, fsBefore, fsFirst, removed, renames>>

-----------------------------------------------------------------------------
(* Bounds of the model *)

\* how many distinct Coordinates_* names the solver may choose from
NumCoordNames == 2
\* how many distinct Polar_* names the solver may choose from
NumPolarNames == 3

-----------------------------------------------------------------------------
(* Program constants *)

NoArg == <<>>
Old == "old"
New == "new"
NoFile == [n \in {} |-> Old]

\* line 35: [re * 100000 for re in [0.1, 0.5, 1]]
reynolds == <<10000, 50000, 100000>>

\* line 36: list(np.arange(-20, 25, 0.5)), in half degrees: -40, -39 .. 49
AoaLen == 90
aoa == [k \in 1..AoaLen |-> k - 41]

\* lines 51 and 62
Iteration == 5000

TempFile == <<":00.bl">>

-----------------------------------------------------------------------------
(* Strings and the file system *)

startswith(name, prefix) == Len(name) >= 1 /\ name[1] = prefix

exists(dir, name) == name \in DOMAIN dir

Remove(dir, name) == [n \in DOMAIN dir \ {name} |-> dir[n]]

Write(dir, name, content) ==
    [n \in DOMAIN dir \cup {name} |-> IF n = name THEN content ELSE dir[n]]

\* os.rename(old, new) on an existing old: new names the file old named
Rename(dir, old, new) == Write(Remove(dir, old), new, dir[old])

-----------------------------------------------------------------------------
(* cleanup and its helpers.  A cleanup in progress is a record: the         *)
(* directory, the set of names os.remove deleted, the bag of <<old, new>>   *)
(* pairs os.rename moved (pair |-> how many times), and the exception       *)
(* raised.                                                                  *)

NoRename == [p \in {} |-> 0]

Logged(bag, pair) ==
    [p \in DOMAIN bag \cup {pair} |->
        IF p = pair THEN (IF pair \in DOMAIN bag THEN bag[pair] + 1 ELSE 1)
        ELSE bag[p]]

CleanupStart(dir) ==
    [fs |-> dir, removed |-> {}, renames |-> NoRename, err |-> "none"]

\* safe_remove with the test of line 95 negated
safe_remove_negated(st, file) ==
    IF ~exists(st.fs, file)
    THEN [st EXCEPT !.fs = Remove(@, file), !.removed = @ \cup {file}]
    ELSE st

\* def safe_remove(file)
safe_remove(st, file) ==
    IF exists(st.fs, file)
    THEN [st EXCEPT !.fs = Remove(@, file), !.removed = @ \cup {file}]
    ELSE st

\* def safe_rename(old, new); os.rename raises FileNotFoundError when old is
\* not there (any more)
safe_rename(st, old, new) ==
    LET s1 == IF exists(st.fs, new)
              THEN [st EXCEPT !.fs = Remove(@, new), !.removed = @ \cup {new}]
              ELSE st
    IN  IF exists(s1.fs, old)
        THEN [s1 EXCEPT !.fs = Rename(@, old, new),
                        !.renames = Logged(@, <<old, new>>)]
        ELSE [s1 EXCEPT !.err = "FileNotFoundError"]

\* the loop body with airfoil + ".txt" in place of file + ".txt" on line 90
LoopBody_airfoil_txt(a, st, file) ==
    IF startswith(file, "Coordinates_")
    THEN safe_rename(st, file, Append(a, ".dat"))
    ELSE IF startswith(file, "Polar_")
         THEN safe_rename(st, file, Append(a, ".txt"))
         ELSE st

\* the body of the for loop of cleanup, for one entry of the listing
LoopBody(a, st, file) ==
    IF startswith(file, "Coordinates_")
    THEN safe_rename(st, file, Append(a, ".dat"))
    ELSE IF startswith(file, "Polar_")
         THEN safe_rename(st, file, Append(file, ".txt"))
         ELSE st

\* the entries of a listing the loop body acts on
Generated(listing) ==
    {f \in listing : startswith(f, "Coordinates_") \/ startswith(f, "Polar_")}

\* a loop in progress [st, todo] has ended when an exception was raised or
\* no entry is left that the body acts on
Ended(p) == p.st.err # "none" \/ Generated(p.todo) = {}

\* for file in os.listdir(cwd): the listing is taken once and comes in an
\* arbitrary order, so the loop has one outcome per order.  The body leaves
\* the state alone for an entry with neither prefix, so only the order of the
\* other entries matters.  `front` is the set of loops in progress, each
\* advanced by one entry at a time; an exception ends a loop.
RECURSIVE CleanupLoop(_, _)
CleanupLoop(a, front) ==
    IF \A p \in front : Ended(p)
    THEN {p.st : p \in front}
    ELSE CleanupLoop(a,
            {p \in front : Ended(p)}
            \cup UNION {{[st |-> LoopBody(a, p.st, file), todo |-> p.todo \ {file}] :
                            file \in Generated(p.todo)} :
                        p \in {q \in front : ~Ended(q)}})

\* def cleanup(airfoil): the set of its possible outcomes on directory dir
cleanup(a, dir) ==
    LET st == safe_remove(CleanupStart(dir), TempFile)
    IN  CleanupLoop(a, {[st |-> st, todo |-> DOMAIN st.fs]})

-----------------------------------------------------------------------------
(* The external solver, aeropy.xfoil_module.call.  Its code is not part of  *)
(* the script: an invocation is an arbitrary choice among the effects on    *)
(* the working directory that the script reckons with.                      *)

Tag == <<"a", "b", "c", "d", "e">>
CoordName(k) == <<"Coordinates_", Tag[k]>>
PolarName(k) == <<"Polar_", Tag[k]>>

\* ok: the call returns (otherwise it raises, and then before it has touched
\* the directory); coord, polar: which Coordinates_* and Polar_* file it
\* writes, 0 for none; bl: whether it leaves ":00.bl"; rm: whether it
\* displaces the coordinate file it was given (coordinate-file mode only)
SolverEffects ==
    [ok : BOOLEAN, coord : 0..NumCoordNames, polar : 0..NumPolarNames,
     bl : BOOLEAN, rm : BOOLEAN]

Outputs(eff) ==
    (IF eff.coord = 0 THEN {} ELSE {CoordName(eff.coord)})
    \cup (IF eff.polar = 0 THEN {} ELSE {PolarName(eff.polar)})
    \cup (IF eff.bl THEN {TempFile} ELSE {})

\* the directory after an invocation with effect eff on airfoil a
SolverDir(dir, a, eff) ==
    LET gone == IF eff.rm THEN {a, Append(a, ".dat")} \ written ELSE {}
        kept == DOMAIN dir \ gone
    IN  [n \in kept \cup Outputs(eff) |-> IF n \in Outputs(eff) THEN New ELSE dir[n]]

-----------------------------------------------------------------------------
(* main *)

\* the call with the iteration cap the module docstring announces (line 15)
CallArgs_docstring(a, re, naca) ==
    [airfoil |-> a, alfas |-> aoa, output |-> "Polar", Reynolds |-> re,
     plots |-> FALSE, NACA |-> naca, iteration |-> 100]

\* the keyword arguments of xf.call, lines 44-52 and 55-63
CallArgs(a, re, naca) ==
    [airfoil |-> a, alfas |-> aoa, output |-> "Polar", Reynolds |-> re,
     plots |-> FALSE, NACA |-> naca, iteration |-> Iteration]

\* line 43
IsNaca(a) == startswith(a, "naca")

\* line 54 without the test: the call is made whatever the directory holds
Found_unchecked(dir, a) == TRUE

\* line 54 hoisted out of the loop: the directory is looked at once, as it
\* was when the run started
Found_hoisted(dir, a) == exists(fs0, a) \/ exists(fs0, Append(a, ".dat"))

\* line 54
Found(dir, a) == exists(dir, a) \/ exists(dir, Append(a, ".dat"))

\* every pass uses the first Reynolds number
CurrentRe_first(k) == reynolds[1]

\* the element of the Reynolds list the k-th pass of the for loop binds to re
CurrentRe(k) == reynolds[k]

\* the loop stops one pass early
AfterPass_early(k) == IF k >= Len(reynolds) - 1 THEN "cleanup" ELSE "loop"

\* where the for loop goes after pass k
AfterPass(k) == IF k = Len(reynolds) THEN "cleanup" ELSE "loop"

Airfoils == {<<"naca", "0012">>, <<"myfoil">>, <<"Coordinates_", "a">>}

\* the files the working directory may hold when the process starts
InitNames ==
    {<<"myfoil">>, <<"myfoil", ".dat">>, <<"Coordinates_", "a", ".dat">>,
     <<"Polar_", "a", ".txt">>}

Init ==
    /\ argv \in Airfoils \cup {NoArg}
    /\ fs0 \in {[n \in S |-> Old] : S \in SUBSET InitNames}
    /\ fs = fs0
    /\ pc = "parse"
    /\ err = "none"
    /\ airfoil = NoArg
    /\ i = 0
    /\ calls = <<>>
    /\ checks = <<>>
    /\ written = {}
    /\ cleanupRuns = 0
    /\ fsBefore = NoFile
    /\ fsFirst = NoFile
    /\ removed = {}
    /\ renames = NoRename

\* parse_inputs falling back to a default airfoil when the argument is missing
ParseInputs_default ==
    /\ pc = "parse"
    /\ airfoil' = IF argv = NoArg THEN <<"naca", "0012">> ELSE argv
    /\ i' = 1
    /\ pc' = "loop"
    /\ UNCHANGED <<argv, fs0, fs, err, calls, checks, written, cleanupRuns,
                   fsBefore, fsFirst, removed, renames>>

\* lines 34-38 with parse_inputs, lines 70-74: sys.argv[1] raises IndexError
\* when the argument is missing
ParseInputs ==
    /\ pc = "parse"
    /\ IF argv = NoArg
       THEN /\ pc' = "error"
            /\ err' = "IndexError"
            /\ UNCHANGED <<airfoil, i>>
       ELSE /\ airfoil' = argv
            /\ i' = 1
            /\ pc' = "loop"
            /\ err' = err
    /\ UNCHANGED <<argv, fs0, fs, calls, checks, written, cleanupRuns,
                   fsBefore, fsFirst, removed, renames>>

\* xf.call(...) of pass k: the call is issued, the solver acts on the
\* directory and returns or raises
XfCall(k, naca) ==
    \E eff \in SolverEffects :
        /\ naca => ~eff.rm
        /\ ~eff.ok => Outputs(eff) = {} /\ ~eff.rm
        /\ calls' = Append(calls, CallArgs(airfoil, CurrentRe(k), naca))
        /\ fs' = SolverDir(fs, airfoil, eff)
        /\ written' = written \cup Outputs(eff)
        /\ IF eff.ok
           THEN pc' = AfterPass(k) /\ err' = err
           ELSE pc' = "error" /\ err' = "SolverError"

\* one pass of the for loop, lines 39-65
LoopIteration ==
    /\ pc = "loop"
    /\ i' = i + 1
    /\ IF IsNaca(airfoil)
       THEN /\ XfCall(i, TRUE)
            /\ checks' = checks
       ELSE /\ checks' = Append(checks, [pass |-> i, found |-> Found(fs, airfoil)])
            /\ IF Found(fs, airfoil)
               THEN XfCall(i, FALSE)
               ELSE /\ pc' = "error"
                    /\ err' = "ValueError"
                    /\ UNCHANGED <<fs, calls, written>>
    /\ UNCHANGED <<argv, fs0, airfoil, cleanupRuns, fsBefore, fsFirst,
                   removed, renames>>

\* cleanup(airfoil) entered from program position `at`
RunCleanup(at) ==
    /\ pc = at
    /\ \E out \in cleanup(airfoil, fs) :
        /\ fs' = out.fs
        /\ removed' = out.removed
        /\ renames' = out.renames
        /\ err' = out.err
        /\ pc' = IF out.err = "none" THEN "exit0" ELSE "error"
        /\ fsFirst' = IF cleanupRuns = 0 THEN out.fs ELSE fsFirst
    /\ fsBefore' = fs
    /\ cleanupRuns' = cleanupRuns + 1
    /\ UNCHANGED <<argv, fs0, airfoil, i, calls, checks, written>>

\* line 67
Cleanup == RunCleanup("cleanup")

Next == ParseInputs \/ LoopIteration \/ Cleanup

Spec == Init /\ [][Next]_vars

-----------------------------------------------------------------------------
(* cleanup on its own: called on an arbitrary working directory, and once   *)
(* more after it returned                                                   *)

\* the files the working directory may hold when cleanup is called
CleanupNames ==
    {TempFile, <<"notes">>, <<"myfoil", ".dat">>, <<"naca", "0012", ".dat">>,
     <<"Coordinates_", "a">>, <<"Coordinates_", "a", ".dat">>,
     <<"Polar_", "a">>, <<"Polar_", "a", ".txt">>}

InitCleanup ==
    /\ argv \in Airfoils
    /\ airfoil = argv
    /\ fs0 \in UNION {[S -> {Old, New}] : S \in SUBSET CleanupNames}
    /\ fs = fs0
    /\ pc = "cleanup"
    /\ err = "none"
    /\ i = Len(reynolds) + 1
    /\ calls = <<>>
    /\ checks = <<>>
    /\ written = {}
    /\ cleanupRuns = 0
    /\ fsBefore = NoFile
    /\ fsFirst = NoFile
    /\ removed = {}
    /\ renames = NoRename

\* cleanup(airfoil) called again after the first call returned
CleanupAgain == cleanupRuns = 1 /\ RunCleanup("exit0")

NextCleanup == Cleanup \/ CleanupAgain

SpecCleanup == InitCleanup /\ [][NextCleanup]_vars

-----------------------------------------------------------------------------
(* Properties *)

Dat(a) == Append(a, ".dat")
Parametric == startswith(argv, "naca")
CoordinateFile == argv # NoArg /\ ~startswith(argv, "naca")
\* main has left the for loop without an exception of the loop
LoopCompleted == pc \in {"cleanup", "exit0"} \/ (pc = "error" /\ err = "FileNotFoundError")

\* C1: for an identifier that starts with "naca", the solver calls issued so
\* far are for the first Reynolds numbers of the list, in list order, one per
\* pass, all with the same angle-of-attack sweep; once the loop has completed
\* without a failing call there is exactly one call per Reynolds number.
C1_OneCallPerReynolds ==
    Parametric =>
        /\ Len(calls) <= Len(reynolds)
        /\ \A k \in 1..Len(calls) : calls[k].Reynolds = reynolds[k]
        /\ \A j, k \in 1..Len(calls) : calls[j].alfas = calls[k].alfas
        /\ \A k \in 1..Len(calls) : Len(calls[k].alfas) = AoaLen
        /\ pc = "loop" => Len(calls) = i - 1
        /\ LoopCompleted => Len(calls) = Len(reynolds)

C1_Witness ==
    /\ Parametric
    /\ pc = "exit0"
    /\ Len(calls) = 3
    /\ calls[1].Reynolds < calls[2].Reynolds
    /\ calls[2].Reynolds < calls[3].Reynolds

\* C2: for a non-parametric identifier a with neither a nor a + ".dat" in the
\* directory when the run starts, no solver call is ever made, cleanup is
\* never run, and once main has left the parsing step and the first pass it
\* has ended with the airfoil-not-found error (ValueError).
C2_NotFoundBeforeAnyCall ==
    (CoordinateFile /\ argv \notin DOMAIN fs0 /\ Dat(argv) \notin DOMAIN fs0) =>
        /\ calls = <<>>
        /\ cleanupRuns = 0
        /\ fs = fs0
        /\ pc \in {"parse", "loop", "error"}
        /\ pc = "loop" => i = 1
        /\ pc = "error" => err = "ValueError" /\ i = 2

C2_Witness ==
    /\ CoordinateFile
    /\ argv \notin DOMAIN fs0
    /\ Dat(argv) \notin DOMAIN fs0
    /\ pc = "error"
    /\ err = "ValueError"
    /\ calls = <<>>

C8_MissingArgument ==
    argv = NoArg =>
        /\ pc \in {"parse", "error"}
        /\ pc = "error" => err = "IndexError"
        /\ i = 0
        /\ calls = <<>>
        /\ checks = <<>>
        /\ cleanupRuns = 0
        /\ fs = fs0

C8_Witness == argv = NoArg /\ pc = "error" /\ err = "IndexError"

\* the Polar_* files of a directory whose name ends in ".txt"
PolarTxt(dir) ==
    {n \in DOMAIN dir : startswith(n, "Polar_") /\ n[Len(n)] = ".txt"}

\* the run of the scenario: "naca0012" started in a directory without
\* Coordinates_*, Polar_* and ":00.bl" files, the invocations having written
\* three distinct Polar_* files and at least one Coordinates_* file
C5_Scenario ==
    /\ argv = <<"naca", "0012">>
    /\ \A n \in DOMAIN fs0 :
        ~startswith(n, "Coordinates_") /\ ~startswith(n, "Polar_") /\ n # <<":00.bl">>
    /\ Len(calls) = 3
    /\ err # "SolverError"
    /\ Cardinality({n \in written : startswith(n, "Polar_")}) = 3
    /\ \E n \in written : startswith(n, "Coordinates_")

C6_State ==
    /\ (pc = "error" /\ err \in {"SolverError", "ValueError"}) =>
        /\ cleanupRuns = 0
        /\ removed = {}
        /\ renames = NoRename
        /\ written \subseteq DOMAIN fs
        /\ \A n \in written : fs[n] = New
        /\ Len(calls) = IF err = "SolverError" THEN i - 1 ELSE i - 2
    /\ pc = "error" => err # "none"
    /\ pc = "exit0" => err = "none" /\ cleanupRuns = 1
    /\ cleanupRuns <= 1
    /\ cleanupRuns = 0 => removed = {} /\ renames = NoRename
    /\ cleanupRuns = 1 => Len(calls) = 3 /\ pc \in {"exit0", "error"}
    /\ pc = "cleanup" => Len(calls) = 3

\* C6: every error ends the run at once (no step is taken from the error
\* state, so no later solver call and no cleanup follow it), with the state
\* part above holding throughout.
C6_ErrorsAbort == [](C6_State) /\ [][pc # "error" /\ pc # "exit0"]_vars

C6_Witness ==
    /\ pc = "error"
    /\ err = "SolverError"
    /\ Len(calls) = 2
    /\ \E n \in written : startswith(n, "Coordinates_")
    /\ \E n \in written : startswith(n, "Polar_")
    /\ <<":00.bl">> \in written

\* the test of line 54 as a property of the directory
OnDisk == airfoil \in DOMAIN fs \/ Dat(airfoil) \in DOMAIN fs

\* C9, the state part: in coordinate-file mode there is one existence test
\* per pass begun, every call made was preceded by a successful test of its
\* own pass, and the airfoil-not-found error of pass k comes after a failed
\* test of pass k, k - 1 successful ones and exactly k - 1 calls.
C9_State ==
    CoordinateFile =>
        /\ pc \in {"loop", "cleanup", "exit0", "error"} => Len(checks) = i - 1
        /\ \A k \in 1..Len(checks) : checks[k].pass = k
        /\ Len(calls) <= Len(checks)
        /\ \A k \in 1..Len(calls) : checks[k].found
        /\ (pc = "error" /\ err = "ValueError") =>
            /\ Len(checks) = Len(calls) + 1
            /\ ~checks[Len(checks)].found
            /\ ~OnDisk
        /\ ~(pc = "error" /\ err = "ValueError") => Len(checks) = Len(calls)

\* C9, the step part: a pass of the loop that finds neither file on disk
\* ends the run with the airfoil-not-found error and makes no call, whatever
\* earlier passes found; a pass that finds one makes the call.
C9_Step ==
    (pc = "loop" /\ ~startswith(airfoil, "naca")) =>
        IF OnDisk
        THEN Len(calls') = Len(calls) + 1 /\ err' # "ValueError"
        ELSE pc' = "error" /\ err' = "ValueError" /\ calls' = calls /\ fs' = fs

\* C9: the existence test is made afresh in every pass.
C9_FreshCheck == [](C9_State) /\ [][C9_Step]_vars

C9_Witness ==
    /\ CoordinateFile
    /\ pc = "error"
    /\ err = "ValueError"
    /\ Len(calls) = 2
    /\ checks[1].found /\ checks[2].found /\ ~checks[3].found

\* what os.listdir returned in the last cleanup: the directory cleanup was
\* entered with, less ":00.bl"
Listing == DOMAIN fsBefore \ {<<":00.bl">>}

\* the destinations of the renames of the last cleanup
Destinations ==
    (IF \E n \in Listing : startswith(n, "Coordinates_") THEN {Dat(airfoil)} ELSE {})
    \cup {Append(n, ".txt") : n \in {m \in Listing : startswith(m, "Polar_")}}

C3_CleanupIdempotent ==
    cleanupRuns = 2 => (err = "none" /\ DOMAIN fs = DOMAIN fsFirst)

\* C4: when <airfoil>.dat and a Coordinates_* file are both in the directory
\* cleanup is entered with, cleanup returns without an exception and
\* <airfoil>.dat then holds what one of the Coordinates_* files held.
C4_RenameOverwrites ==
    (/\ cleanupRuns = 1
     /\ Dat(airfoil) \in DOMAIN fsBefore
     /\ \E n \in DOMAIN fsBefore : startswith(n, "Coordinates_"))
    => /\ err = "none"
       /\ Dat(airfoil) \in DOMAIN fs
       /\ \E n \in DOMAIN fsBefore :
            startswith(n, "Coordinates_") /\ fs[Dat(airfoil)] = fsBefore[n]

====
